---- MODULE Spec2Model ----
(***************************************************************************)
(* xact.py: desktop activity monitor.  Four threads share one process:     *)
(* the main thread (Activity.start / process_window), the TimerThread,     *)
(* and the pynput keyboard and mouse listener threads.  They share the     *)
(* input_stat bank (guarded by thread_lock) and sys.stdout.                *)
(* The X server, the window manager and the process table are the          *)
(* environment.  The wall-clock "time" field of a log record is omitted.   *)
(***************************************************************************)
EXTENDS Integers, Sequences, FiniteSets, TLC

VARIABLES
    pc,              \* position of every thread
    input_stat,      \* Activity.input_stat: defaultdict(int), only touched keys present
    thread_lock,     \* Activity.thread_lock: "free" or the holding thread
    key,             \* argument of the update_input_stat call in flight, per listener
    out,             \* sys.stdout: the sequence of write() calls made so far
    cache,           \* lru_cache of cmdline_by_pid: entries, least recently used first
    window_details,  \* Activity.window_details
    last_window,     \* Activity.last_window (window id, 0 for None)
    active_window,   \* local of process_window
    details,         \* local of handle_window (result of window_options)
    pid,             \* local of window_options
    active,          \* X: _NET_ACTIVE_WINDOW of the root window (0: none)
    alive,           \* X: windows that exist
    title,           \* X: raw _NET_WM_NAME of every window
    procs,           \* process table: pids that exist
    pending,         \* X: events queued on the display connection
    subscribed,      \* X: non-root windows with PropertyChangeMask selected
    recorded,        \* history: completed update_input_stat calls per kind
    last_use,        \* history: number of the last cmdline_by_pid call that hit or filled a pid
    calls,           \* history: number of cmdline_by_pid calls made
    focus_hist,      \* history: the values _NET_ACTIVE_WINDOW has taken
    budget           \* stimuli (callbacks, timer wake-ups, environment changes) left

vars == <<pc, input_stat, thread_lock, key, out, cache, window_details,
          last_window, active_window, details, pid, active, alive, title,
          procs, pending, subscribed, recorded, last_use, calls, focus_hist,
          budget>>

----------------------------------------------------------------------------
(* Bounds of the exploration *)

MaxStimuli == 2      \* input callbacks, timer wake-ups and environment changes
MaxPending == 2      \* X events queued at once
MaxCalls   == 260    \* cmdline_by_pid calls in the cache specification
MaxPid     == 261    \* pids 1..MaxPid in the cache specification
MaxPresses == 5      \* key presses before the timer wakes up, in the presses scenario

(* Program constants *)

maxsize == 256                 \* lru_cache(maxsize=256)
input_flush_interval == 20     \* Activity.input_flush_interval

----------------------------------------------------------------------------
(* Threads, input kinds *)

Listeners == {"keyboard", "mouse"}
Flushers  == {"main", "timer"}
Threads   == Listeners \cup Flushers

Kinds == {"press", "release", "move", "click", "scroll"}

\* the callbacks each pynput listener is given in Activity.start
KindsOf(l) == IF l = "keyboard" THEN {"press", "release"}
                                ELSE {"move", "click", "scroll"}

None == <<>>

\* None where the other values are integers (a pid)
NonePid == 0 - 1

----------------------------------------------------------------------------
(* The windows of the scenario of the specification: H1 Editor pid 100,    *)
(* H2 Browser pid 200; and a window without _NET_WM_PID and WM_CLASS.      *)

Windows == {1, 2, 3}
Pids == {100, 200}
Titles(w) == IF w = 1 THEN {"Editor", "Editor *"}
             ELSE IF w = 2 THEN {"Browser"} ELSE {""}
\* WM_CLASS split on NUL; a missing property reads as b''
RawClass(w) == IF w = 1 THEN <<"editor", "Editor", "">>
               ELSE IF w = 2 THEN <<"browser", "Browser", "">> ELSE <<"">>
RawState(w) == IF w = 2 THEN {"_NET_WM_STATE_FULLSCREEN"} ELSE {}
\* the value array of _NET_WM_PID, empty when the property is missing
RawPid(w) == IF w = 1 THEN <<100>> ELSE IF w = 2 THEN <<200>> ELSE <<>>

\* psutil.Process(pid).cmdline() of a process that exists
Cmdline(p) == <<"cmd", p>>

----------------------------------------------------------------------------
(* Pure helpers *)

b2s(value) == IF value = "" THEN None ELSE value

\* the text json.dumps produces in log(); the line terminator is a write of its own
Json(event, data) == [v |-> "a", event |-> event, data |-> data]
NL == [event |-> "\n"]

getWmClass(w) ==
    LET value == SelectSeq(RawClass(w), LAMBDA seg : seg # "")
    IN  [i \in 1..Len(value) |-> b2s(value[i])]

isWmFullscreen(w) == "_NET_WM_STATE_FULLSCREEN" \in RawState(w)

getWmName(w) == b2s(title[w])

\* the TypeError of indexing a missing property is swallowed: pid is None
getWmPid(w) == IF RawPid(w) = <<>> THEN NonePid ELSE RawPid(w)[1]

\* "if pid:"
Truthy(p) == p # NonePid /\ p # 0

Metadata(w, p) ==
    [name |-> getWmName(w), wid |-> w, pid |-> p,
     fullscreen |-> isWmFullscreen(w), class |-> getWmClass(w)]

\* mutant: every check is taken for a change
DetailsChangedAlways(new, old) == TRUE

\* mutant: None is not taken for a value ("if window_details and ...")
DetailsChangedTruthy(new, old) == new # None /\ new # old

\* handle_window: window_details != self.window_details
DetailsChanged(new, old) == new # old

\* mutant: the test is inverted
BankEmptyInverted(stat) == DOMAIN stat # {}

\* flush_input_stat: "if not self.input_stat: return", read without the lock
BankEmpty(stat) == DOMAIN stat = {}

\* mutant: the counter is set, not incremented
IncrementSet(stat, k) ==
    [j \in DOMAIN stat \cup {k} |-> IF j = k THEN 1 ELSE stat[j]]

\* self.input_stat[key] += 1 on a defaultdict(int)
Increment(stat, k) ==
    IF k \in DOMAIN stat THEN [stat EXCEPT ![k] = @ + 1]
                          ELSE [j \in DOMAIN stat \cup {k} |->
                                   IF j = k THEN 1 ELSE stat[j]]

EmptyBank == [k \in {} |-> 0]

\* mutant: the interval is reported on every flush
InputDataInterval(timeout, stat) ==
    [timeout |-> timeout, stats |-> stat, interval |-> input_flush_interval]

\* the data dict flush_input_stat builds
InputData(timeout, stat) ==
    IF timeout
    THEN [timeout |-> timeout, stats |-> stat, interval |-> input_flush_interval]
    ELSE [timeout |-> timeout, stats |-> stat]

\* the timeout argument: the timer calls flush_input_stat(), handle_window
\* calls flush_input_stat(timeout=False)
TimeoutOf(t) == t = "timer"

----------------------------------------------------------------------------
(* functools.lru_cache(maxsize=256) around cmdline_by_pid *)

CachePids(c) == {c[i].pid : i \in DOMAIN c}

CacheIndex(c, p) == CHOOSE i \in DOMAIN c : c[i].pid = p

\* mutant: a hit leaves the order alone (first in, first out)
CacheHitNoMove(c, p) == c

\* a hit moves the link to the most recently used end
CacheHit(c, p) ==
    LET i == CacheIndex(c, p)
    IN  SubSeq(c, 1, i - 1) \o SubSeq(c, i + 1, Len(c)) \o <<c[i]>>

\* mutant: nothing is stored (maxsize=0)
CacheFillNothing(c, p, value) == c

\* a miss whose call returned: the oldest link is reused when the cache is full
CacheFill(c, p, value) ==
    LET e == [pid |-> p, value |-> value]
    IN  IF Len(c) >= maxsize THEN Tail(c) \o <<e>> ELSE Append(c, e)

----------------------------------------------------------------------------
(* Initial state: Activity.__init__ has run, start() has started the timer *)
(* and the listeners and is about to make the startup process_window call. *)

EmptyFn == [k \in {} |-> 0]

Init ==
    /\ pc = [t \in Threads |->
               IF t = "main" THEN "start" ELSE IF t = "timer" THEN "sleep" ELSE "idle"]
    /\ input_stat = EmptyBank
    /\ thread_lock = "free"
    /\ key = [l \in Listeners |-> "none"]
    /\ out = <<>>
    /\ cache = <<>>
    /\ window_details = None
    /\ last_window = 0
    /\ active_window = 0
    /\ details = None
    /\ pid = NonePid
    /\ active \in {0, 1}
    /\ alive = Windows
    /\ title = [w \in Windows |-> IF w = 1 THEN "Editor"
                                 ELSE IF w = 2 THEN "Browser" ELSE ""]
    /\ procs \in {Pids, {100}}
    /\ pending = 0
    /\ subscribed = {}
    /\ recorded = [k \in Kinds |-> 0]
    /\ last_use = EmptyFn
    /\ calls = 0
    /\ focus_hist = <<active>>
    /\ budget = MaxStimuli

\* the process ends when the main thread dies of an uncaught exception
\* (the timer and the listeners are daemon threads)
Running == pc["main"] # "crashed"

envVars  == <<active, alive, title, procs, pending, subscribed, focus_hist>>
bankVars == <<input_stat, thread_lock, key, recorded>>
mainVars == <<cache, window_details, last_window, active_window, details, pid,
              last_use, calls>>

----------------------------------------------------------------------------
(* Listener threads: on_press, on_release, on_move, on_click, on_scroll    *)

\* a callback is delivered and calls update_input_stat(k)
Callback(l, k) ==
    /\ Running
    /\ pc[l] = "idle"
    /\ k \in KindsOf(l)
    /\ budget > 0
    /\ budget' = budget - 1
    /\ pc' = [pc EXCEPT ![l] = "lock"]
    /\ key' = [key EXCEPT ![l] = k]
    /\ UNCHANGED <<input_stat, thread_lock, recorded, out, mainVars, envVars>>

\* with self.thread_lock:
UpdateAcquire(l) ==
    /\ Running
    /\ pc[l] = "lock"
    /\ thread_lock = "free"
    /\ thread_lock' = l
    /\ pc' = [pc EXCEPT ![l] = "inc"]
    /\ UNCHANGED <<input_stat, key, recorded, out, mainVars, envVars, budget>>

\* mutant: the call returns with the lock held
UpdateIncKeepLock(l) ==
    /\ Running
    /\ pc[l] = "inc"
    /\ input_stat' = Increment(input_stat, key[l])
    /\ recorded' = [recorded EXCEPT ![key[l]] = @ + 1]
    /\ key' = [key EXCEPT ![l] = "none"]
    /\ pc' = [pc EXCEPT ![l] = "idle"]
    /\ UNCHANGED <<thread_lock, out, mainVars, envVars, budget>>

\* self.input_stat[key] += 1, and the lock is released
UpdateInc(l) ==
    /\ Running
    /\ pc[l] = "inc"
    /\ input_stat' = Increment(input_stat, key[l])
    /\ recorded' = [recorded EXCEPT ![key[l]] = @ + 1]
    /\ thread_lock' = "free"
    /\ key' = [key EXCEPT ![l] = "none"]
    /\ pc' = [pc EXCEPT ![l] = "idle"]
    /\ UNCHANGED <<out, mainVars, envVars, budget>>

----------------------------------------------------------------------------
(* flush_input_stat, called by the timer thread and by handle_window       *)

\* where flush_input_stat returns to
AfterFlush(t) == IF t = "timer" THEN "sleep" ELSE "aw_write"

\* if not self.input_stat: return
FlushCheck(t) ==
    /\ Running
    /\ pc[t] = "fl_check"
    /\ pc' = [pc EXCEPT ![t] = IF BankEmpty(input_stat) THEN AfterFlush(t)
                                                        ELSE "fl_lock"]
    /\ UNCHANGED <<bankVars, out, mainVars, envVars, budget>>

\* with self.thread_lock:
FlushAcquire(t) ==
    /\ Running
    /\ pc[t] = "fl_lock"
    /\ thread_lock = "free"
    /\ thread_lock' = t
    /\ pc' = [pc EXCEPT ![t] = "fl_write"]
    /\ UNCHANGED <<input_stat, key, recorded, out, mainVars, envVars, budget>>

\* log('input', data): sys.stdout.write(json.dumps(_data))
FlushWrite(t) ==
    /\ Running
    /\ pc[t] = "fl_write"
    /\ out' = Append(out, Json("input", InputData(TimeoutOf(t), input_stat)))
    /\ pc' = [pc EXCEPT ![t] = "fl_nl"]
    /\ UNCHANGED <<bankVars, mainVars, envVars, budget>>

\* log('input', data): sys.stdout.write('\n')
FlushNewline(t) ==
    /\ Running
    /\ pc[t] = "fl_nl"
    /\ out' = Append(out, NL)
    /\ pc' = [pc EXCEPT ![t] = "fl_reset"]
    /\ UNCHANGED <<bankVars, mainVars, envVars, budget>>

\* mutant: the flush forgets the window as well, so that the next check reports it
FlushResetDetails(t) ==
    /\ Running
    /\ pc[t] = "fl_reset"
    /\ input_stat' = EmptyBank
    /\ window_details' = None
    /\ thread_lock' = "free"
    /\ pc' = [pc EXCEPT ![t] = AfterFlush(t)]
    /\ UNCHANGED <<key, recorded, out, cache, last_window, active_window,
                   details, pid, last_use, calls, envVars, budget>>

\* self.input_stat = defaultdict(int), the lock is released, the call returns
FlushReset(t) ==
    /\ Running
    /\ pc[t] = "fl_reset"
    /\ input_stat' = EmptyBank
    /\ thread_lock' = "free"
    /\ pc' = [pc EXCEPT ![t] = AfterFlush(t)]
    /\ UNCHANGED <<key, recorded, out, mainVars, envVars, budget>>

----------------------------------------------------------------------------
(* TimerThread.run *)

\* time.sleep(self.interval) returns and the callback is called
Tick ==
    /\ Running
    /\ pc["timer"] = "sleep"
    /\ budget > 0
    /\ budget' = budget - 1
    /\ pc' = [pc EXCEPT !["timer"] = "fl_check"]
    /\ UNCHANGED <<bankVars, out, mainVars, envVars>>

----------------------------------------------------------------------------
(* Main thread: Activity.start, process_window, handle_window              *)

\* mutant: the old window keeps its PropertyChangeMask
ResubscribeKeepOld(sub, old, new) ==
    IF new # old
    THEN sub \cup (IF new # 0 /\ new \in alive THEN {new} ELSE {})
    ELSE sub

\* process_window: the two window_obj blocks, entered when the active window
\* is not last_window: NoEventMask on the old window, PropertyChangeMask on
\* the new one; a window that is gone is ignored
Resubscribe(sub, old, new) ==
    IF new # old
    THEN (sub \ {old}) \cup (IF new # 0 /\ new \in alive THEN {new} ELSE {})
    ELSE sub

\* mutant: the lookup succeeds for every pid
LookupAlways(p) == TRUE

\* psutil.Process(pid): the process exists
Lookup(p) == p \in procs

\* history of the cache: the call number of the last hit or fill of a pid
Touch(lu, p, n) == [q \in DOMAIN lu \cup {p} |-> IF q = p THEN n ELSE lu[q]]

\* process_window up to the call of handle_window: the active window is read
\* and the property-change subscription follows it
ProcessWindow ==
    /\ active_window' = active
    /\ subscribed' = Resubscribe(subscribed, last_window, active)
    /\ pc' = [pc EXCEPT !["main"] = "resolve"]
    /\ UNCHANGED <<bankVars, out, budget, cache, window_details, last_window,
                   details, pid, last_use, calls, active, alive, title, procs,
                   focus_hist, budget>>

\* start(): the unconditional process_window call before the loop
Startup ==
    /\ pc["main"] = "start"
    /\ ProcessWindow
    /\ UNCHANGED pending

\* the loop of start(): display.next_event() returns, process_window is called
NextEvent ==
    /\ pc["main"] = "wait"
    /\ pending > 0
    /\ pending' = pending - 1
    /\ ProcessWindow

\* mutant: last_window follows the active window only when a record is written
HandleWindowNoUpdate(d) ==
    /\ details' = d
    /\ UNCHANGED last_window
    /\ pc' = [pc EXCEPT !["main"] = IF DetailsChanged(d, window_details)
                                    THEN "fl_check" ELSE "wait"]

\* handle_window(win) with the result of window_options: the comparison; when
\* nothing changed process_window finishes with self.last_window = active_window
HandleWindow(d) ==
    /\ details' = d
    /\ IF DetailsChanged(d, window_details)
       THEN /\ pc' = [pc EXCEPT !["main"] = "fl_check"]
            /\ UNCHANGED last_window
       ELSE /\ pc' = [pc EXCEPT !["main"] = "wait"]
            /\ last_window' = active_window

\* window_options up to the return of cmdline_by_pid's cache lookup:
\*   no window: None; BadWindow in getWmPid: None;
\*   a pid that is cached: hit; a pid that is not: psutil.Process(pid), which
\*   raises NoSuchProcess when the process is gone, and nothing catches it
WindowOptions ==
    /\ pc["main"] = "resolve"
    /\ IF active_window = 0 \/ active_window \notin alive
       THEN /\ HandleWindow(None)
            /\ UNCHANGED <<pid, cache, last_use, calls>>
       ELSE /\ pid' = getWmPid(active_window)
            /\ UNCHANGED <<details, last_window>>
            /\ IF ~Truthy(pid')
               THEN /\ pc' = [pc EXCEPT !["main"] = "props"]
                    /\ UNCHANGED <<cache, last_use, calls>>
               ELSE /\ calls' = calls + 1
                    /\ IF pid' \in CachePids(cache)
                       THEN /\ cache' = CacheHit(cache, pid')
                            /\ last_use' = Touch(last_use, pid', calls')
                            /\ pc' = [pc EXCEPT !["main"] = "props"]
                       ELSE /\ UNCHANGED <<cache, last_use>>
                            /\ pc' = [pc EXCEPT !["main"] =
                                        IF Lookup(pid') THEN "np_write"
                                                        ELSE "crashed"]
    /\ UNCHANGED <<bankVars, out, budget, window_details, active_window, envVars>>

\* cmdline_by_pid: log('new-pid', ...): sys.stdout.write(json.dumps(_data))
NewPidWrite ==
    /\ pc["main"] = "np_write"
    /\ out' = Append(out, Json("new-pid", [pid |-> pid, cmdline |-> Cmdline(pid)]))
    /\ pc' = [pc EXCEPT !["main"] = "np_nl"]
    /\ UNCHANGED <<bankVars, mainVars, envVars, budget>>

\* cmdline_by_pid: sys.stdout.write('\n'), return value; lru_cache stores it
NewPidNewline ==
    /\ pc["main"] = "np_nl"
    /\ out' = Append(out, NL)
    /\ cache' = CacheFill(cache, pid, Cmdline(pid))
    /\ last_use' = Touch(last_use, pid, calls)
    /\ pc' = [pc EXCEPT !["main"] = "props"]
    /\ UNCHANGED <<bankVars, window_details, last_window, active_window, details,
                   pid, calls, envVars, budget>>

\* window_options: getWmName, isWmFullscreen, getWmClass and the dict;
\* BadWindow from any of them: None; then handle_window
WindowProps ==
    /\ pc["main"] = "props"
    /\ HandleWindow(IF active_window \in alive THEN Metadata(active_window, pid)
                                               ELSE None)
    /\ UNCHANGED <<bankVars, out, budget, cache, window_details,
                   active_window, pid, last_use, calls, envVars>>

\* handle_window: log('active-window', ...): sys.stdout.write(json.dumps(_data))
ActiveWindowWrite ==
    /\ pc["main"] = "aw_write"
    /\ out' = Append(out, Json("active-window", details))
    /\ pc' = [pc EXCEPT !["main"] = "aw_nl"]
    /\ UNCHANGED <<bankVars, mainVars, envVars, budget>>

\* handle_window: sys.stdout.write('\n'); self.window_details = window_details;
\* process_window: self.last_window = active_window
ActiveWindowNewline ==
    /\ pc["main"] = "aw_nl"
    /\ out' = Append(out, NL)
    /\ window_details' = details
    /\ last_window' = active_window
    /\ pc' = [pc EXCEPT !["main"] = "wait"]
    /\ UNCHANGED <<bankVars, cache, active_window, details, pid, last_use, calls,
                   envVars, budget>>

----------------------------------------------------------------------------
(* Environment: the window manager, the X clients, the process table       *)

EnvStep ==
    /\ Running
    /\ budget > 0
    /\ budget' = budget - 1
    /\ UNCHANGED <<pc, bankVars, out, mainVars>>

\* the window manager gives the focus to another window, or to none;
\* _NET_ACTIVE_WINDOW of the root window changes
FocusChange(w) ==
    /\ EnvStep
    /\ w \in (alive \cup {0}) \ {active}
    /\ pending < MaxPending
    /\ active' = w
    /\ focus_hist' = Append(focus_hist, w)
    /\ pending' = pending + 1
    /\ UNCHANGED <<alive, title, procs, subscribed>>

\* a window is destroyed; _NET_CLIENT_LIST of the root window changes
CloseWindow(w) ==
    /\ EnvStep
    /\ w \in alive
    /\ pending < MaxPending
    /\ alive' = alive \ {w}
    /\ subscribed' = subscribed \ {w}
    /\ active' = IF active = w THEN 0 ELSE active
    /\ focus_hist' = IF active = w THEN Append(focus_hist, 0) ELSE focus_hist
    /\ pending' = pending + 1
    /\ UNCHANGED <<title, procs>>

\* a client changes the title of its window
TitleChange(w, t) ==
    /\ EnvStep
    /\ w \in alive
    /\ t \in Titles(w) \ {title[w]}
    /\ w \in subscribed => pending < MaxPending
    /\ title' = [title EXCEPT ![w] = t]
    /\ pending' = IF w \in subscribed THEN pending + 1 ELSE pending
    /\ UNCHANGED <<active, alive, procs, subscribed, focus_hist>>

\* some other property of the root window changes
RootNotify ==
    /\ EnvStep
    /\ pending < MaxPending
    /\ pending' = pending + 1
    /\ UNCHANGED <<active, alive, title, procs, subscribed, focus_hist>>

----------------------------------------------------------------------------

Next ==
    \/ \E l \in Listeners : \E k \in Kinds : Callback(l, k)
    \/ \E l \in Listeners : UpdateAcquire(l)
    \/ \E l \in Listeners : UpdateInc(l)
    \/ \E t \in Flushers : FlushCheck(t)
    \/ \E t \in Flushers : FlushAcquire(t)
    \/ \E t \in Flushers : FlushWrite(t)
    \/ \E t \in Flushers : FlushNewline(t)
    \/ \E t \in Flushers : FlushReset(t)
    \/ Tick
    \/ Startup
    \/ NextEvent
    \/ WindowOptions
    \/ NewPidWrite
    \/ NewPidNewline
    \/ WindowProps
    \/ ActiveWindowWrite
    \/ ActiveWindowNewline
    \/ \E w \in Windows \cup {0} : FocusChange(w)
    \/ \E w \in Windows : CloseWindow(w)
    \/ \E w \in Windows : \E t \in Titles(w) : TitleChange(w, t)
    \/ RootNotify

Spec == Init /\ [][Next]_vars

----------------------------------------------------------------------------
(* Reading the output stream *)

\* the records written so far, in the order of their writes
Events(o) == SelectSeq(o, LAMBDA r : r.event # "\n")

IsInput(r) == r.event = "input"
IsActiveWindow(r) == r.event = "active-window"
IsNewPid(r) == r.event = "new-pid"

RECURSIVE SumStat(_, _)
\* the sum of the counts of kind k over the input records of o
SumStat(o, k) ==
    IF o = <<>> THEN 0
    ELSE (IF IsInput(Head(o)) /\ k \in DOMAIN Head(o).data.stats
          THEN Head(o).data.stats[k] ELSE 0) + SumStat(Tail(o), k)

\* the count of kind k held in the bank and not yet reported: a flush that
\* has written its record and not yet reset the bank holds nothing back
Held(k) ==
    IF \E t \in Flushers : pc[t] \in {"fl_nl", "fl_reset"} THEN 0
    ELSE IF k \in DOMAIN input_stat THEN input_stat[k] ELSE 0

----------------------------------------------------------------------------
(* C1: conservation of input counts.  In every interleaving of the         *)
(* listeners' update_input_stat calls with the flushes of the timer and of *)
(* the main thread, for every kind the counts of all input records written *)
(* plus the count still held in the bank equal the number of completed     *)
(* update_input_stat calls of that kind.                                   *)
C1_Conservation ==
    \A k \in Kinds : SumStat(out, k) + Held(k) = recorded[k]

\* two update_input_stat calls have completed and a flush has reported counts
C1_Witness ==
    /\ recorded["press"] + recorded["release"] + recorded["move"]
         + recorded["click"] + recorded["scroll"] = 2
    /\ \E i \in DOMAIN out : IsInput(out[i]) /\ DOMAIN out[i].data.stats # {}
    /\ \A t \in Threads : pc[t] \in {"wait", "sleep", "idle"}

(* C2: a flush on an empty bank never emits: every input record written    *)
(* carries a non-empty stats mapping.                                      *)
C2_NoEmptyInput ==
    \A i \in DOMAIN out : IsInput(out[i]) => DOMAIN out[i].data.stats # {}

(* C3: every input record with timeout=false is immediately followed, in   *)
(* the output stream, by the active-window record of the same check: no    *)
(* other record is written between the two.                                *)
C3_BoundaryAdjacent ==
    LET ev == Events(out)
    IN  \A i \in DOMAIN ev :
          (IsInput(ev[i]) /\ ~ev[i].data.timeout /\ i < Len(ev))
             => IsActiveWindow(ev[i + 1])

----------------------------------------------------------------------------
(* The active-window records *)

ActiveWindows(o) == SelectSeq(o, IsActiveWindow)

\* the payload of the last active-window record written, None before the first
LastActiveWindow(o) ==
    LET aw == ActiveWindows(o)
    IN  IF aw = <<>> THEN None ELSE aw[Len(aw)].data

\* no window has had the focus since the program started
NeverFocused == \A i \in DOMAIN focus_hist : focus_hist[i] = 0

\* the main thread is between the comparison of handle_window and the end of
\* its active-window write
Emitting == pc["main"] \in {"fl_check", "fl_lock", "fl_write", "fl_nl", "fl_reset",
                            "aw_write", "aw_nl"}

(* C4 as stated: with no window focused at startup, and for as long as the *)
(* handle stays absent, the startup check has written exactly one          *)
(* active-window record, with a null payload.                              *)
C4_StartupNull ==
    (NeverFocused /\ pc["main"] = "wait")
       => /\ Len(ActiveWindows(out)) = 1
          /\ ActiveWindows(out)[1].data = None

(* C4 as amended: with no window focused at startup, and for as long as    *)
(* the handle stays absent, no active-window record is written at all: the *)
(* startup check resolves None, which equals the initial window_details.   *)
C4_NoStartupEvent ==
    NeverFocused => (ActiveWindows(out) = <<>> /\ ~Emitting)

\* the startup check and a later check have both run with no window focused
C4_Witness ==
    /\ NeverFocused
    /\ alive # Windows
    /\ pending = 0
    /\ pc["main"] = "wait"

(* C5: a process-lookup failure never ends the check cycle: the main       *)
(* thread is never terminated by an error of the resolution path.          *)
C5_NoCrash == pc["main"] # "crashed"

(* C6: metadata equality gates emission: the main thread flushes and       *)
(* writes an active-window record only when the resolved metadata differs  *)
(* from window_details, and no two consecutive active-window records carry *)
(* equal payloads.                                                         *)
C6_EqualityGates ==
    /\ Emitting => details # window_details
    /\ LET aw == ActiveWindows(out)
       IN  \A i \in DOMAIN aw : i < Len(aw) => aw[i].data # aw[i + 1].data

\* two checks resolved the metadata of a window and one record was written
C6_Witness ==
    /\ calls >= 2
    /\ pc["main"] = "wait"
    /\ Len(ActiveWindows(out)) = 1

(* C7: both directions of a focus/no-focus transition are changes: after   *)
(* every check window_details is the metadata the check resolved, and it   *)
(* is the payload of the last active-window record written (None before    *)
(* the first), so a check that resolves M after None, or None after M, has *)
(* written active-window(M), or active-window(null).                       *)
C7_BothDirections ==
    /\ pc["main"] = "wait" => window_details = details
    /\ pc["main"] # "aw_nl" => window_details = LastActiveWindow(out)

\* None -> M and M -> None have both been written
C7_Witness ==
    /\ pc["main"] = "wait"
    /\ LET aw == ActiveWindows(out)
       IN  \E i \in DOMAIN aw : /\ i < Len(aw)
                                /\ aw[i].data # None
                                /\ aw[i + 1].data = None

----------------------------------------------------------------------------
(* cmdline_by_pid on its own: one caller, pids 1..MaxPid, the last of them *)
(* without a process.  The cache is filled with fresh pids; on the full    *)
(* cache the caller asks for a fresh pid, the least or the most recently   *)
(* used one, pid 1 or the dead one.                                        *)

DeadPid == MaxPid
FreshPid == Cardinality(DOMAIN last_use) + 1

Candidates ==
    IF Len(cache) < maxsize
    THEN {FreshPid}
    ELSE {q \in {FreshPid, cache[1].pid, cache[Len(cache)].pid, 1, DeadPid} :
            q <= MaxPid}

InitCache ==
    /\ pc = [t \in Threads |->
               IF t = "main" THEN "start" ELSE IF t = "timer" THEN "sleep" ELSE "idle"]
    /\ input_stat = EmptyBank
    /\ thread_lock = "free"
    /\ key = [l \in Listeners |-> "none"]
    /\ out = <<>>
    /\ cache = <<>>
    /\ window_details = None
    /\ last_window = 0
    /\ active_window = 0
    /\ details = None
    /\ pid = NonePid
    /\ active = 0
    /\ alive = Windows
    /\ title = [w \in Windows |-> IF w = 1 THEN "Editor"
                                 ELSE IF w = 2 THEN "Browser" ELSE ""]
    /\ procs = (1..MaxPid) \ {DeadPid}
    /\ pending = 0
    /\ subscribed = {}
    /\ recorded = [k \in Kinds |-> 0]
    /\ last_use = EmptyFn
    /\ calls = 0
    /\ focus_hist = <<0>>
    /\ budget = 0

\* one whole call cmdline_by_pid(p): a hit returns the cached value; a miss
\* looks the process up, logs new-pid and stores the value; a failed lookup
\* raises and stores nothing
CmdlineByPid(p) ==
    /\ calls < MaxCalls
    /\ p \in Candidates
    /\ calls' = calls + 1
    /\ pid' = p
    /\ IF p \in CachePids(cache)
       THEN /\ cache' = CacheHit(cache, p)
            /\ last_use' = Touch(last_use, p, calls')
            /\ UNCHANGED out
       ELSE IF Lookup(p)
       THEN /\ out' = out \o <<Json("new-pid", [pid |-> p, cmdline |-> Cmdline(p)]), NL>>
            /\ cache' = CacheFill(cache, p, Cmdline(p))
            /\ last_use' = Touch(last_use, p, calls')
       ELSE UNCHANGED <<cache, last_use, out>>
    /\ UNCHANGED <<pc, bankVars, window_details, last_window, active_window,
                   details, envVars, budget>>

\* a process is started and gets a pid that was free
ProcessStart(p) ==
    /\ p \notin procs
    /\ procs' = procs \cup {p}
    /\ UNCHANGED <<pc, bankVars, out, mainVars, active, alive, title, pending,
                   subscribed, focus_hist, budget>>

NextCache ==
    \/ \E p \in 1..MaxPid : CmdlineByPid(p)
    \/ \E p \in 1..MaxPid : ProcessStart(p)

SpecCache == InitCache /\ [][NextCache]_vars

\* the writes a step adds to the output stream
Written == SubSeq(out', Len(out) + 1, Len(out'))

(* C8: a new-pid record for P is written on exactly the successful cache   *)
(* misses for P: a call that hits, or whose lookup fails, writes nothing;  *)
(* a successful miss writes one new-pid record for P and leaves P cached;  *)
(* and a pid leaves the cache only by eviction, at a successful miss of    *)
(* another pid on the full cache.                                          *)
C8_NewPidOnMiss ==
    [][ calls' = calls + 1 =>
          /\ IF pid' \notin CachePids(cache) /\ pid' \in procs
             THEN /\ Events(Written) =
                       <<Json("new-pid", [pid |-> pid', cmdline |-> Cmdline(pid')])>>
                  /\ pid' \in CachePids(cache')
             ELSE out' = out
          /\ \A q \in CachePids(cache) \ CachePids(cache') :
                /\ Len(cache) = maxsize
                /\ pid' \notin CachePids(cache)
                /\ pid' \in procs
                /\ q # pid'
      ]_vars

\* pid 1 was resolved, evicted and resolved again: two new-pid records
C8_Witness ==
    Cardinality({i \in DOMAIN out : IsNewPid(out[i]) /\ out[i].data.pid = 1}) = 2

(* C9: the cache is bounded with least-recently-used eviction: it never    *)
(* holds more than maxsize entries; its entries are in the order of their  *)
(* last hit or fill, so a hit makes its entry the most recently used; a    *)
(* pid that was evicted was used before every entry still cached, and a    *)
(* miss on the full cache evicts one entry only; maxsize + 1 distinct pids *)
(* resolved in order leave all but the first cached.                       *)
C9_BoundedLRU ==
    /\ Len(cache) <= maxsize
    /\ Len(cache) = IF Cardinality(DOMAIN last_use) < maxsize
                    THEN Cardinality(DOMAIN last_use) ELSE maxsize
    /\ \A i \in DOMAIN cache :
          i < Len(cache) => last_use[cache[i].pid] < last_use[cache[i + 1].pid]
    /\ \A q \in DOMAIN last_use \ CachePids(cache) :
          \A i \in DOMAIN cache : last_use[q] < last_use[cache[i].pid]
    /\ (calls = maxsize + 1 /\ DOMAIN last_use = 1..(maxsize + 1))
          => CachePids(cache) = 2..(maxsize + 1)

\* on the full cache pid 1 was hit and the next miss evicted pid 2
C9_Witness ==
    /\ Len(cache) = maxsize
    /\ 1 \in CachePids(cache)
    /\ 2 \in DOMAIN last_use \ CachePids(cache)

----------------------------------------------------------------------------
(* The scenario of the specification: H1 (Editor, pid 100) has the focus   *)
(* at startup, the focus moves to H2 (Browser, pid 200) and back to H1,    *)
(* input is recorded between the switches while the main thread waits, and *)
(* the timer does not wake up.                                             *)

InitScenario ==
    /\ pc = [t \in Threads |->
               IF t = "main" THEN "start" ELSE IF t = "timer" THEN "sleep" ELSE "idle"]
    /\ input_stat = EmptyBank
    /\ thread_lock = "free"
    /\ key = [l \in Listeners |-> "none"]
    /\ out = <<>>
    /\ cache = <<>>
    /\ window_details = None
    /\ last_window = 0
    /\ active_window = 0
    /\ details = None
    /\ pid = NonePid
    /\ active = 1
    /\ alive = Windows
    /\ title = [w \in Windows |-> IF w = 1 THEN "Editor"
                                 ELSE IF w = 2 THEN "Browser" ELSE ""]
    /\ procs = Pids
    /\ pending = 0
    /\ subscribed = {}
    /\ recorded = [k \in Kinds |-> 0]
    /\ last_use = EmptyFn
    /\ calls = 0
    /\ focus_hist = <<1>>
    /\ budget = MaxStimuli + 2

\* the main thread is blocked in display.next_event() with nothing queued
Quiet == pc["main"] = "wait" /\ pending = 0

\* input between the switches
ScenarioCallback(l, k) == Quiet /\ Callback(l, k)

\* the next switch of the scenario, once input has been recorded
ScenarioFocus(w) ==
    /\ Quiet
    /\ \A l \in Listeners : pc[l] = "idle"
    /\ ~BankEmpty(input_stat)
    /\ \/ focus_hist = <<1>> /\ w = 2
       \/ focus_hist = <<1, 2>> /\ w = 1
    /\ FocusChange(w)

NextScenario ==
    \/ \E l \in Listeners : \E k \in Kinds : ScenarioCallback(l, k)
    \/ \E l \in Listeners : UpdateAcquire(l)
    \/ \E l \in Listeners : UpdateInc(l)
    \/ \E t \in Flushers : FlushCheck(t)
    \/ \E t \in Flushers : FlushAcquire(t)
    \/ \E t \in Flushers : FlushWrite(t)
    \/ \E t \in Flushers : FlushNewline(t)
    \/ \E t \in Flushers : FlushReset(t)
    \/ Startup
    \/ NextEvent
    \/ WindowOptions
    \/ NewPidWrite
    \/ NewPidNewline
    \/ WindowProps
    \/ ActiveWindowWrite
    \/ ActiveWindowNewline
    \/ \E w \in Windows : ScenarioFocus(w)

SpecScenario == InitScenario /\ [][NextScenario]_vars

ScenarioShape ==
    <<"new-pid", "active-window", "new-pid", "input", "active-window",
      "input", "active-window">>

ScenarioDone == focus_hist = <<1, 2, 1>> /\ Quiet

(* C10: event order within a focus check.  In the scenario the records     *)
(* written are, in this order and at every moment a prefix of it:          *)
(* new-pid(100), active-window(H1), new-pid(200), input(timeout=false),    *)
(* active-window(H2), input(timeout=false), active-window(H1); every check *)
(* writes new-pid before the boundary flush and the boundary flush before  *)
(* active-window, and pid 100, still cached, is not written again.  When   *)
(* the last check is over all seven have been written.                     *)
C10_ScenarioOrder ==
    LET ev == Events(out)
        H1 == Metadata(1, 100)
        H2 == Metadata(2, 200)
    IN  /\ Len(ev) <= Len(ScenarioShape)
        /\ \A i \in DOMAIN ev : ev[i].event = ScenarioShape[i]
        /\ Len(ev) >= 1 => ev[1].data.pid = 100
        /\ Len(ev) >= 2 => ev[2].data = H1
        /\ Len(ev) >= 3 => ev[3].data.pid = 200
        /\ Len(ev) >= 4 => (~ev[4].data.timeout /\ DOMAIN ev[4].data.stats # {})
        /\ Len(ev) >= 5 => ev[5].data = H2
        /\ Len(ev) >= 6 => (~ev[6].data.timeout /\ DOMAIN ev[6].data.stats # {})
        /\ Len(ev) >= 7 => ev[7].data = H1
        /\ ScenarioDone => Len(ev) = Len(ScenarioShape)

\* the scenario has run to its end
C10_Witness == ScenarioDone /\ Len(Events(out)) = Len(ScenarioShape)

----------------------------------------------------------------------------
(* C11: every line of the output holds exactly one complete record: the    *)
(* write of a record's text is followed at once by the write of its own    *)
(* line terminator, whatever the interleaving of the log() calls of the    *)
(* main thread (new-pid, active-window, input) and of the timer (input),   *)
(* so the writes alternate: text, terminator, text, terminator, ...        *)
C11_OneRecordPerLine ==
    \A i \in DOMAIN out : (out[i].event = "\n") <=> (i % 2 = 0)

----------------------------------------------------------------------------
\* the window process_window read as active has been destroyed since
StaleHandle == active_window # 0 /\ active_window \notin alive

(* C12: when the window is gone at a property query of window_options      *)
(* (_NET_WM_PID, or the name, state and class queries after it), the       *)
(* resolution yields None and the main thread goes on with handle_window:  *)
(* it writes nothing in that step, takes the emitting branch exactly when  *)
(* window_details was not None, and the record that branch writes is       *)
(* active-window with the resolved (null) payload.                         *)
C12_StaleHandleIsNone ==
    [][ /\ (pc["main"] \in {"resolve", "props"} /\ StaleHandle
              /\ pc'["main"] # pc["main"])
           => /\ details' = None
              /\ out' = out
              /\ pc'["main"] = IF window_details # None THEN "fl_check" ELSE "wait"
        /\ (pc["main"] = "aw_write" /\ pc'["main"] = "aw_nl")
           => Written = <<Json("active-window", details)>>
      ]_vars

\* a window died between the pid query and the other queries of the second
\* resolution, and active-window(null) was written after active-window(M)
C12_Witness ==
    /\ StaleHandle
    /\ calls = 2
    /\ pc["main"] = "wait"
    /\ Len(ActiveWindows(out)) = 2
    /\ LastActiveWindow(out) = None

----------------------------------------------------------------------------
(* The presses scenario of the specification: no window has the focus, the *)
(* keyboard listener records MaxPresses key presses, then the timer wakes  *)
(* up once.  After the timer's flush one more press is recorded and window *)
(* H1 gets the focus, so that the main thread flushes too.  Before that a  *)
(* notification that changes nothing may wake the main thread up.          *)

InitPresses ==
    /\ pc = [t \in Threads |->
               IF t = "main" THEN "start" ELSE IF t = "timer" THEN "sleep" ELSE "idle"]
    /\ input_stat = EmptyBank
    /\ thread_lock = "free"
    /\ key = [l \in Listeners |-> "none"]
    /\ out = <<>>
    /\ cache = <<>>
    /\ window_details = None
    /\ last_window = 0
    /\ active_window = 0
    /\ details = None
    /\ pid = NonePid
    /\ active = 0
    /\ alive = Windows
    /\ title = [w \in Windows |-> IF w = 1 THEN "Editor"
                                 ELSE IF w = 2 THEN "Browser" ELSE ""]
    /\ procs = Pids
    /\ pending = 0
    /\ subscribed = {}
    /\ recorded = [k \in Kinds |-> 0]
    /\ last_use = EmptyFn
    /\ calls = 0
    /\ focus_hist = <<0>>
    /\ budget = MaxPresses + 4

\* the timer has woken up
Ticked == pc["timer"] # "sleep" \/ out # <<>>

\* a key press: MaxPresses of them before the timer wakes up, one more after
\* its flush has returned
PressesCallback ==
    /\ pc["timer"] = "sleep"
    /\ recorded["press"] < (IF Ticked THEN MaxPresses + 1 ELSE MaxPresses)
    /\ Callback("keyboard", "press")

\* the timer wakes up when the presses have been recorded
PressesTick ==
    /\ ~Ticked
    /\ recorded["press"] = MaxPresses
    /\ Tick

\* H1 gets the focus when the press after the timer's flush has been recorded
PressesFocus ==
    /\ recorded["press"] = MaxPresses + 1
    /\ active = 0
    /\ FocusChange(1)

\* a property of the root window other than the active window changes
PressesNotify ==
    /\ active = 0
    /\ pending = 0
    /\ RootNotify

NextPresses ==
    \/ PressesCallback
    \/ \E l \in Listeners : UpdateAcquire(l)
    \/ \E l \in Listeners : UpdateInc(l)
    \/ \E t \in Flushers : FlushCheck(t)
    \/ \E t \in Flushers : FlushAcquire(t)
    \/ \E t \in Flushers : FlushWrite(t)
    \/ \E t \in Flushers : FlushNewline(t)
    \/ \E t \in Flushers : FlushReset(t)
    \/ PressesTick
    \/ Startup
    \/ NextEvent
    \/ WindowOptions
    \/ NewPidWrite
    \/ NewPidNewline
    \/ WindowProps
    \/ ActiveWindowWrite
    \/ ActiveWindowNewline
    \/ PressesFocus
    \/ PressesNotify

SpecPresses == InitPresses /\ [][NextPresses]_vars

\* the input records written so far
Inputs(o) == SelectSeq(o, IsInput)

(* C13: every input record carries the interval field exactly when its     *)
(* timeout flag is true, and then the interval is input_flush_interval;    *)
(* the record a flush of the timer thread writes has timeout=true and the  *)
(* record a flush of the main thread writes has timeout=false, both with   *)
(* the counts of the bank; so in the presses scenario the first input      *)
(* record is {timeout: true, stats: {press: MaxPresses}, interval:         *)
(* input_flush_interval}, it is the only one with timeout=true, and it has *)
(* been written when the timer's flush has returned.                       *)
C13_IntervalIffTimeout ==
    [][ /\ \A t \in Flushers :
              (pc[t] = "fl_write" /\ pc'[t] = "fl_nl")
                 => /\ Len(Written) = 1
                    /\ Written[1].event = "input"
                    /\ Written[1].data.timeout = (t = "timer")
                    /\ Written[1].data.stats = input_stat
        /\ LET inp == Inputs(out')
           IN  /\ \A i \in DOMAIN inp :
                     /\ ("interval" \in DOMAIN inp[i].data) <=> inp[i].data.timeout
                     /\ inp[i].data.timeout
                           => inp[i].data.interval = input_flush_interval
               /\ inp # <<>> =>
                     inp[1].data = [timeout |-> TRUE,
                                   stats |-> [press |-> MaxPresses],
                                   interval |-> input_flush_interval]
               /\ \A i \in DOMAIN inp : inp[i].data.timeout => i = 1
               /\ (Ticked' /\ pc'["timer"] = "sleep") => inp # <<>>
      ]_vars

\* the timer has reported the presses and the main thread the press after them
C13_Witness ==
    /\ Len(Inputs(out)) = 2
    /\ Inputs(out)[1].data.stats = [press |-> MaxPresses]
    /\ ~Inputs(out)[2].data.timeout
    /\ pc["main"] = "wait"

----------------------------------------------------------------------------
(* C14: when a check is over, last_window is the window the check read as  *)
(* the active one, a value the active window has had, whether the check    *)
(* wrote an active-window record or not and whether the resolution gave a  *)
(* dict or None; and last_window changes at the end of a check only.       *)
C14_LastWindowFollows ==
    [][ /\ pc'["main"] = "wait"
           => /\ last_window' = active_window'
              /\ \E i \in DOMAIN focus_hist' : focus_hist'[i] = last_window'
        /\ last_window' # last_window
           => (pc["main"] # "wait" /\ pc'["main"] = "wait")
      ]_vars

\* a check of window H1 ended without a record: H1 was gone at the resolution
C14_Witness ==
    /\ pc["main"] = "wait"
    /\ last_window = 1
    /\ ActiveWindows(out) = <<>>

----------------------------------------------------------------------------
(* C15: subscription follows focus.  A step of the main thread changes the *)
(* set of subscribed windows only when it reads an active window that is   *)
(* not last_window, and then the old window leaves the set and the new     *)
(* one, if there is one and it exists, enters it; so from the first check  *)
(* on the set is the window the last check read as active, or empty when   *)
(* there was none or when that window is gone: never an earlier window.    *)
C15_SubscriptionFollows ==
    [][ /\ (pc'["main"] # pc["main"] /\ subscribed' # subscribed)
           => /\ active # last_window
              /\ active_window' = active
              /\ last_window \notin subscribed'
              /\ subscribed' \ subscribed = {active} \cap alive
              /\ subscribed \ subscribed' \subseteq {last_window}
        /\ pc'["main"] # "start"
           => subscribed' = {active_window'} \cap alive'
      ]_vars

\* H1 was focused and checked, then H2: H2 alone is subscribed, H1 still exists
C15_Witness ==
    /\ pc["main"] = "wait"
    /\ focus_hist = <<1, 2>>
    /\ Len(ActiveWindows(out)) = 2
    /\ 1 \in alive
    /\ subscribed = {2}

----------------------------------------------------------------------------
(* C16: a failed process lookup leaves the cache and the output unchanged: *)
(* a cmdline_by_pid call that misses for a pid without a process stores no *)
(* entry, evicts none, moves none and writes nothing; the failure is not   *)
(* remembered: no pid is cached without a new-pid record of its own, and a *)
(* later call for the same pid, still a miss, looks the process up again   *)
(* and stores and reports it once the process exists.                      *)
C16_FailedLookupNoTrace ==
    [][ /\ (calls' = calls + 1 /\ pid' \notin CachePids(cache) /\ pid' \notin procs)
           => /\ cache' = cache
              /\ last_use' = last_use
              /\ out' = out
        /\ (calls' = calls + 1 /\ pid' \notin CachePids(cache) /\ pid' \in procs)
           => /\ pid' \in CachePids(cache')
              /\ last_use'[pid'] = calls'
        /\ \A q \in CachePids(cache') :
              \E i \in DOMAIN out' : IsNewPid(out'[i]) /\ out'[i].data.pid = q
      ]_vars

\* on the full cache the call for the dead pid failed (no pid was used by
\* call maxsize + 1); the process was started and the next call stored it
C16_Witness ==
    /\ calls = maxsize + 2
    /\ \A q \in DOMAIN last_use : last_use[q] # maxsize + 1
    /\ DeadPid \in CachePids(cache)
    /\ last_use[DeadPid] = maxsize + 2

----------------------------------------------------------------------------
\* what window_options returns for the active window as the display is now
WouldResolve ==
    IF active = 0 \/ active \notin alive THEN None
    ELSE Metadata(active, getWmPid(active))

\* the main thread waits or resolves, and the active window and its
\* properties are what the last check recorded
NothingChanged ==
    /\ pc["main"] \in {"wait", "resolve", "props"}
    /\ active = last_window
    /\ pc["main"] # "wait" => active_window = active
    /\ WouldResolve = window_details

(* C17: the check is idempotent.  While the active window is last_window   *)
(* and its properties resolve to window_details, the steps of a check      *)
(* write nothing, do not enter flush_input_stat, leave the bank, the       *)
(* subscriptions, last_window and window_details as they are, and lead     *)
(* back to the wait for the next event; so any number of notifications     *)
(* handled one after the other leave the output of the first check alone.  *)
C17_CheckIdempotent ==
    [][ (pc'["main"] # pc["main"] /\ NothingChanged)
           => /\ out' = out
              /\ input_stat' = input_stat
              /\ thread_lock' = thread_lock
              /\ subscribed' = subscribed
              /\ last_window' = last_window
              /\ window_details' = window_details
              /\ pc["main"] = "props" => pc'["main"] = "wait"
              /\ (pc["main"] = "resolve" /\ active # 0) => pc'["main"] = "props"
              /\ (pc["main"] = "resolve" /\ active = 0) => pc'["main"] = "wait"
      ]_vars

\* after the startup check of H1 two notifications that change nothing were
\* handled by two checks: the output is that of the startup check
C17_Witness ==
    /\ pc["main"] = "wait"
    /\ pending = 0
    /\ budget = 0
    /\ focus_hist = <<1>>
    /\ calls = 3
    /\ title[1] = "Editor"
    /\ Len(Events(out)) = 2
    /\ NothingChanged

----------------------------------------------------------------------------
(* C18: thread confinement.  A step of a listener thread or of the timer   *)
(* thread leaves last_window, window_details, the subscriptions and the    *)
(* cache of cmdline_by_pid unchanged.  A step of the main thread changes   *)
(* the bank only at the end of its flush_input_stat(timeout=False), where  *)
(* it empties the bank whose counts it has just written; it completes no   *)
(* update_input_stat call and increments no counter.                       *)
C18_Confinement ==
    [][ /\ (\E t \in Listeners \cup {"timer"} : pc'[t] # pc[t])
           => /\ last_window' = last_window
              /\ window_details' = window_details
              /\ subscribed' = subscribed
              /\ cache' = cache
        /\ pc'["main"] # pc["main"]
           => /\ recorded' = recorded
              /\ input_stat' # input_stat
                    => /\ pc["main"] = "fl_reset"
                       /\ input_stat' = EmptyBank
                       /\ LET inp == Inputs(out)
                          IN  /\ inp # <<>>
                              /\ ~inp[Len(inp)].data.timeout
                              /\ inp[Len(inp)].data.stats = input_stat
      ]_vars

\* input was recorded and both the timer and the main thread have flushed,
\* with a window focused, resolved and subscribed
C18_Witness ==
    /\ \E i \in DOMAIN out : IsInput(out[i]) /\ out[i].data.timeout
    /\ \E i \in DOMAIN out : IsInput(out[i]) /\ ~out[i].data.timeout
    /\ window_details # None
    /\ cache # <<>>
    /\ subscribed # {}
    /\ \A t \in Threads : pc[t] \in {"wait", "sleep", "idle"}

----------------------------------------------------------------------------
(* The program under fair scheduling.  The timer wakes up again and again; *)
(* the input callbacks and the focus changes are the finitely many stimuli *)
(* of the budget.  Every thread that can take a step eventually takes it:  *)
(* a sleeping timer wakes up, a thread waiting for thread_lock gets it     *)
(* when it stays free, a thread inside a call goes on.  Callbacks and      *)
(* focus changes come from outside and are not forced.                     *)

\* time.sleep(self.interval) returns and the callback is called, for ever
TickLive ==
    /\ Running
    /\ pc["timer"] = "sleep"
    /\ pc' = [pc EXCEPT !["timer"] = "fl_check"]
    /\ UNCHANGED <<bankVars, out, mainVars, envVars, budget>>

\* the steps of flush_input_stat in thread t
FlushStep(t) ==
    \/ FlushCheck(t)
    \/ FlushAcquire(t)
    \/ FlushWrite(t)
    \/ FlushNewline(t)
    \/ FlushReset(t)

TimerStep == TickLive \/ FlushStep("timer")

ListenerStep(l) == UpdateAcquire(l) \/ UpdateInc(l)

MainStep ==
    \/ Startup
    \/ NextEvent
    \/ WindowOptions
    \/ NewPidWrite
    \/ NewPidNewline
    \/ WindowProps
    \/ FlushStep("main")
    \/ ActiveWindowWrite
    \/ ActiveWindowNewline

\* H1 has the focus at startup; the process of H2 has exited
InitLive == Init /\ active = 1 /\ procs = {100}

\* one kind of input for each listener
LiveKind(l) == IF l = "keyboard" THEN "press" ELSE "move"

\* the focus is lost, or goes to H2
LiveTargets == {0, 2}

NextLive ==
    \/ \E l \in Listeners : Callback(l, LiveKind(l))
    \/ \E l \in Listeners : ListenerStep(l)
    \/ TimerStep
    \/ MainStep
    \/ \E w \in LiveTargets : FocusChange(w)

Fairness ==
    /\ WF_vars(TimerStep)
    /\ WF_vars(MainStep)
    /\ \A l \in Listeners : WF_vars(ListenerStep(l))

SpecLive == InitLive /\ [][NextLive]_vars /\ Fairness

(* C19: every recorded input is eventually reported: when n calls of       *)
(* update_input_stat(k) have completed, eventually the input records       *)
(* written carry n counts of kind k at least.                              *)
C19_EventuallyReported ==
    \A k \in Kinds : \A n \in 1..MaxStimuli :
        (recorded[k] >= n) ~> (SumStat(out, k) >= n)

----------------------------------------------------------------------------
\* thread t is inside a "with self.thread_lock:" block
InCritical(t) == pc[t] \in {"inc", "fl_write", "fl_nl", "fl_reset"}

\* thread t is blocked at the entry of a "with self.thread_lock:" block
Waiting(t) == pc[t] \in {"lock", "fl_lock"}

(* C20: the lock of the bank never deadlocks.  At most one thread is       *)
(* inside a critical section of update_input_stat or flush_input_stat, and *)
(* it is the holder of thread_lock; a thread outside of them does not hold *)
(* the lock, so every way out of a call releases it; and under fair        *)
(* scheduling a thread that waits for the lock gets it and its call        *)
(* returns, for as long as the process runs.                               *)
C20_LockLive ==
    /\ [](/\ Cardinality({t \in Threads : InCritical(t)}) <= 1
          /\ \A t \in Threads : InCritical(t) <=> thread_lock = t
          /\ (\A t \in Threads : ~InCritical(t)) <=> thread_lock = "free")
    /\ \A t \in Threads :
          Waiting(t) ~> ((~Waiting(t) /\ ~InCritical(t)) \/ ~Running)

\* the timer holds the lock while the keyboard listener and the main thread
\* wait for it
C20_Witness ==
    /\ thread_lock = "timer"
    /\ pc["keyboard"] = "lock"
    /\ pc["main"] = "fl_lock"

====
